---- MODULE Spec2Model ----
(***************************************************************************)
(* Model of the batch orchestration of classify_outcomes_batch.py: main,   *)
(* the pool of process_batch workers, the shared ledger all_results with   *)
(* results_lock, and the checkpoint written by save_intermediate_results.  *)
(***************************************************************************)
EXTENDS Integers, Sequences, FiniteSets, TLC

\* ------------------------------------------------------------------ bounds
MaxRows == 4
MaxBatchSize == 4
MaxBatches == 2
MaxSplitRows == 2
MaxWorkers == 2
MaxPos == 120
MaxRuns == 2
MaxResumeRows == 2
MaxKeys == 3
MaxPolls == 3
MaxLiveRows == 2
MaxLines == 2
MaxPartRows == 9
MaxPartBatch == 5
MaxInterruptRows == 2
MaxPairs == 2
MaxScore == 2

\* ------------------------------------------------------- program constants
max_retries == 3

\* --check-interval, default 30 seconds
CHECK_INTERVAL == 30

BYU_AIMS ==
  << "Spiritually Strengthening", "Intellectually Enlarging",
     "Character Building", "Lifelong Learning and Service" >>

AimSet == {BYU_AIMS[k] : k \in 1..Len(BYU_AIMS)}

\* ----------------------------------------------------------------- strings
\* Text is a sequence of one-character strings.
Digits == << "0", "1", "2", "3", "4", "5", "6", "7", "8", "9" >>

Prefix == << "o", "u", "t", "c", "o", "m", "e", "-" >>

\* str(i) of a non-negative int, as the f-string of line 172 renders it
RECURSIVE IntToStr(_)
IntToStr(i) ==
  IF i < 10 THEN << Digits[i + 1] >>
  ELSE IntToStr(i \div 10) \o << Digits[(i % 10) + 1] >>

\* f"outcome-{i}"
CustomId(i) == Prefix \o IntToStr(i)

\* custom_id.startswith("outcome-")
StartsWith(s, p) == Len(s) >= Len(p) /\ SubSeq(s, 1, Len(p)) = p

\* s.split(sep): the segments of s between the occurrences of sep
RECURSIVE SplitFrom(_, _, _, _)
SplitFrom(s, sep, k, cur) ==
  IF k > Len(s) THEN << cur >>
  ELSE IF s[k] = sep THEN << cur >> \o SplitFrom(s, sep, k + 1, << >>)
  ELSE SplitFrom(s, sep, k + 1, Append(cur, s[k]))

Split(s, sep) == SplitFrom(s, sep, 1, << >>)

DigitValue(c) == CHOOSE d \in 0..9 : Digits[d + 1] = c

IsDigit(c) == \E d \in 0..9 : Digits[d + 1] = c

\* int(s) for decimal text; -1 stands for the ValueError int() raises
RECURSIVE ParseDigits(_, _, _)
ParseDigits(s, k, acc) ==
  IF k > Len(s) THEN acc
  ELSE ParseDigits(s, k + 1, acc * 10 + DigitValue(s[k]))

ParseInt(s) ==
  IF Len(s) = 0 \/ \E k \in 1..Len(s) : ~IsDigit(s[k]) THEN -1
  ELSE ParseDigits(s, 1, 0)

\* str.strip(): drop the leading and trailing blanks
RECURSIVE LStrip(_)
LStrip(s) == IF Len(s) > 0 /\ s[1] = " " THEN LStrip(Tail(s)) ELSE s

RECURSIVE RStrip(_)
RStrip(s) ==
  IF Len(s) > 0 /\ s[Len(s)] = " " THEN RStrip(SubSeq(s, 1, Len(s) - 1)) ELSE s

Strip(s) == RStrip(LStrip(s))

\* ------------------------------------------------------------ record store
\* A cell of the input CSV as pandas reads it: NaN for an empty cell, text
\* otherwise.
RawCells ==
  { [na |-> TRUE, text |-> << >>],
    [na |-> FALSE, text |-> << " " >>],
    [na |-> FALSE, text |-> << "x" >>] }

\* input_df[col].fillna('').astype(str).str.strip()
CleanCell(c) == IF c.na THEN << >> ELSE Strip(c.text)

IsBlankRaw(c) == CleanCell(c) = << >>

CleanRow(r) ==
  [ learning_outcome_title |-> CleanCell(r.learning_outcome_title),
    learning_outcome_details |-> CleanCell(r.learning_outcome_details) ]

\* The rows of the input CSV: at most one of the two text cells holds text.
RawRows ==
  { r \in [ learning_outcome_title : RawCells,
            learning_outcome_details : RawCells ] :
      IsBlankRaw(r.learning_outcome_title) \/ IsBlankRaw(r.learning_outcome_details) }

\* Stores of n rows after main has loaded and cleaned them; row i of the
\* dataframe (RangeIndex label i) is element i + 1.
Stores(n) == { [k \in 1..n |-> CleanRow(raw[k])] : raw \in [1..n -> RawRows] }

\* (pd.isna(v) or not v.strip()); a cleaned cell is a str, never NaN
IsBlank(v) == Strip(v) = << >>

\* lines 164-169
OutcomeText(row) ==
  LET title == row.learning_outcome_title
      details == row.learning_outcome_details
  IN IF IsBlank(title) THEN Strip(details)
     ELSE IF IsBlank(details) THEN Strip(title)
     ELSE << "Title: " >> \o Strip(title) \o << "\nDetails: " >> \o Strip(details)

Min(a, b) == IF a < b THEN a ELSE b

\* SkipRow looking at the title alone
SkipRowTitleOnly(row) == IsBlank(row.learning_outcome_title)

\* line 159: both title and details are empty
SkipRow(row) ==
  IsBlank(row.learning_outcome_title) /\ IsBlank(row.learning_outcome_details)

\* BatchRequests that runs to the end of the store, whatever e is
RECURSIVE BatchRequestsToEnd(_, _, _)
BatchRequestsToEnd(df, s, e) ==
  IF s >= Len(df) THEN << >>
  ELSE LET row == df[s + 1]
           rest == BatchRequestsToEnd(df, s + 1, e)
       IN IF SkipRow(row) THEN rest
          ELSE << [custom_id |-> CustomId(s), content |-> OutcomeText(row)] >>
               \o rest

\* The requests prepare_batch_request builds for input_df.iloc[s:e], in row
\* order; a row with both fields blank is skipped.
RECURSIVE BatchRequests(_, _, _)
BatchRequests(df, s, e) ==
  IF s >= Min(e, Len(df)) THEN << >>
  ELSE LET row == df[s + 1]
           rest == BatchRequests(df, s + 1, e)
       IN IF SkipRow(row) THEN rest
          ELSE << [custom_id |-> CustomId(s), content |-> OutcomeText(row)] >>
               \o rest

\* ------------------------------------------------------------ job output
NoScores == [kind |-> "mapping", pairs |-> << >>]

\* key.strip() of a response key
StripName(k) == IF k = " Character Building " THEN "Character Building" ELSE k

\* max(confidence_scores, key=confidence_scores.get): the first key, in the
\* order of the response, whose score is the largest
BestKey(pairs) ==
  LET best == CHOOSE k \in 1..Len(pairs) :
                /\ \A j \in 1..Len(pairs) : pairs[j][2] <= pairs[k][2]
                /\ \A j \in 1..(k - 1) : pairs[j][2] < pairs[k][2]
  IN pairs[best][1]

\* bool(confidence_scores)
Truthy(c) ==
  CASE c.kind = "mapping" -> Len(c.pairs) > 0
    [] c.kind = "truthy_other" -> TRUE
    [] OTHER -> FALSE

\* DecodeId that files every result under row 0
DecodeIdRowZero(custom_id) == 0

\* DecodeId reading the segment before the dash
DecodeIdFirstSegment(custom_id) ==
  IF ~StartsWith(custom_id, Prefix) THEN -1
  ELSE ParseInt(Split(custom_id, "-")[1])

\* Lines 414-415: the row index a custom_id names; -1 when the id does not
\* start with "outcome-" or int() raises
DecodeId(custom_id) ==
  IF ~StartsWith(custom_id, Prefix) THEN -1
  ELSE ParseInt(Split(custom_id, "-")[2])

\* One line of the output file: << >> when the line yields no entry (it is
\* skipped or raises), << row_idx, entry >> otherwise.  Lines 409-439.
ParseLine(line) ==
  IF ~line.json_ok THEN << >>
  ELSE LET row_idx == DecodeId(line.custom_id)
           c == line.content
       IN IF row_idx < 0 THEN << >>
          ELSE IF ~line.has_choices THEN << >>
          ELSE IF c.kind = "invalid_json" THEN << >>
          ELSE IF Truthy(c) /\ c.kind # "mapping" THEN << >>
          ELSE << row_idx,
                  [ scores |-> c,
                    best_aim |-> IF Truthy(c) THEN StripName(BestKey(c.pairs))
                                 ELSE "" ] >>

\* DictUpdate that keeps the entries of r alone
DictUpdateReplace(l, r) == r

\* DictUpdate adding the scores of r to those already stored for the key
DictUpdateAccumulate(l, r) ==
  [k \in (DOMAIN l) \cup (DOMAIN r) |->
     IF k \in DOMAIN r
     THEN IF k \in DOMAIN l
          THEN [ scores |-> [ kind |-> "mapping",
                              pairs |-> l[k].scores.pairs \o r[k].scores.pairs ],
                 best_aim |-> r[k].best_aim ]
          ELSE r[k]
     ELSE l[k]]

\* dict.update: every key of r is set to r's value, the others are kept
DictUpdate(l, r) ==
  [k \in (DOMAIN l) \cup (DOMAIN r) |-> IF k \in DOMAIN r THEN r[k] ELSE l[k]]

EmptyDict == [k \in {} |-> 0]

\* results_dict after the lines 1..n of the output; a later line for the
\* same row replaces an earlier one.  Lines 407-442.
RECURSIVE ParseLines(_, _)
ParseLines(lines, n) ==
  IF n = 0 THEN EmptyDict
  ELSE LET before == ParseLines(lines, n - 1)
           p == ParseLine(lines[n])
       IN IF p = << >> THEN before
          ELSE DictUpdate(before, [k \in {p[1]} |-> p[2]])

process_batch_results(lines) == ParseLines(lines, Len(lines))

\* ------------------------------------------------------------- checkpoint
\* `aim in confidence_scores` raises TypeError for a score value that is no
\* container.
ScoresIterable(entry) == entry.scores.kind \in {"mapping", "empty_list"}

HasKey(pairs, a) == \E k \in 1..Len(pairs) : pairs[k][1] = a

ValueOf(pairs, a) == pairs[CHOOSE k \in 1..Len(pairs) : pairs[k][1] = a][2]

\* ApplyRow looking the row up under the label after its own
ApplyRowOffByOne(row, i, results_dict) ==
  IF (i + 1) \notin DOMAIN results_dict
  THEN [rec |-> row, conf |-> [a \in AimSet |-> {}], best_aim |-> {}]
  ELSE LET e == results_dict[i + 1]
       IN [ rec |-> row,
            conf |-> [a \in AimSet |->
                        IF HasKey(e.scores.pairs, a)
                        THEN {ValueOf(e.scores.pairs, a)} ELSE {}],
            best_aim |-> IF e.best_aim # "" THEN {e.best_aim} ELSE {} ]

\* A cell of the output is a set: {} for None, {v} for the value v.
ApplyRow(row, i, results_dict) ==
  IF i \notin DOMAIN results_dict
  THEN [rec |-> row, conf |-> [a \in AimSet |-> {}], best_aim |-> {}]
  ELSE LET e == results_dict[i]
       IN [ rec |-> row,
            conf |-> [a \in AimSet |->
                        IF HasKey(e.scores.pairs, a)
                        THEN {ValueOf(e.scores.pairs, a)} ELSE {}],
            best_aim |-> IF e.best_aim # "" THEN {e.best_aim} ELSE {} ]

\* apply_results_to_df raises when it meets such an entry on a row
ApplyRaises(df, results_dict) ==
  \E i \in 0..(Len(df) - 1) :
     i \in DOMAIN results_dict /\ ~ScoresIterable(results_dict[i])

apply_results_to_df(df, results_dict) ==
  [k \in 1..Len(df) |-> ApplyRow(df[k], k - 1, results_dict)]

\* ------------------------------------------------------------------- state
VARIABLES
  input_df,       \* the record store, loaded and cleaned by main
  BATCH_SIZE,     \* --batch-size
  MAX_WORKERS,    \* --max-workers
  main_pc,        \* where main stands
  futures,        \* number of process_batch tasks main has handed to the pool
  pc,             \* per batch: where its process_batch stands
  start_idx,      \* per batch: the parameter start_idx
  end_idx,        \* per batch: the local end_idx, halved on retries
  retry_count,    \* per batch
  status,         \* per batch: the status the last poll returned
  batch_file,     \* per batch: the requests written to its current batch file
  request_count,  \* per batch: the count prepare_batch_request returned last
  batch_results,  \* per batch: the dict process_batch_results returned last
  jobs,           \* per batch: the manifests of the jobs it created at the service
  exit_line,      \* per batch: the source line of the return taken, 0 before
  all_results,    \* the shared ledger
  results_lock,   \* -1 when free, else the batch whose worker holds it
  partial_file,   \* content of f"{output_csv}.partial"; absent before
  output_file,    \* content of the output CSV; absent before
  events,         \* per batch: the kinds of outcome its worker has met so far
  run,            \* 1 in the first run of the pipeline, 2 after a restart
  prior_partial,  \* the checkpoint found on disk when this run started
  probe           \* scratch state of the function-level specifications

vars ==
  << input_df, BATCH_SIZE, MAX_WORKERS, main_pc, futures, pc,
     start_idx, end_idx, retry_count, status, batch_file, request_count,
     batch_results, jobs, exit_line, all_results, results_lock, partial_file,
     output_file, events, run, prior_partial, probe >>

worker_vars ==
  << pc, start_idx, end_idx, retry_count, status, batch_file, request_count,
     batch_results, jobs, exit_line, events >>

config_vars == << input_df, BATCH_SIZE, MAX_WORKERS, run, prior_partial >>

\* A file on disk: absent, or written with the rows of a dataframe.
Absent == [exists |-> FALSE, rows |-> << >>]

Written(rows) == [exists |-> TRUE, rows |-> rows]

total_rows == Len(input_df)

\* (total_rows + BATCH_SIZE - 1) // BATCH_SIZE
NumBatches(n, b) == (n + b - 1) \div b

num_batches == NumBatches(total_rows, BATCH_SIZE)

Batches == 0..(num_batches - 1)

\* The statuses a poll can return: the six of the job state machine and one
\* outside them.
Statuses ==
  { "queued", "validating", "in_progress", "finalizing", "completed", "failed",
    "expired" }

\* StillRunning taking every status but completed and failed for a running job
StillRunningAnyOther ==
  { "queued", "validating", "in_progress", "finalizing", "expired" }

\* line 362
StillRunning == {"validating", "in_progress", "finalizing"}

\* What the service can answer for one request of a completed job.
GoodScores ==
  [ kind |-> "mapping",
    pairs |-> << << "Intellectually Enlarging", 2 >>,
                 << "Character Building", 1 >> >> ]

\* json.loads(message_content) of the content "null"
NullScores == [kind |-> "null", pairs |-> << >>]

\* A line with well-formed scores, with the content "{}", with the content
\* "null", and a line that is not JSON.
Answers == { [json_ok |-> TRUE, has_choices |-> TRUE, content |-> GoodScores],
             [json_ok |-> TRUE, has_choices |-> TRUE, content |-> NoScores],
             [json_ok |-> TRUE, has_choices |-> TRUE, content |-> NullScores],
             [json_ok |-> FALSE, has_choices |-> FALSE, content |-> NoScores] }

WellFormed(line) == line.json_ok /\ line.has_choices /\ line.content = GoodScores

\* The output files the service can produce for a manifest: one line per
\* request, carrying the request's custom_id.
Outputs(manifest) ==
  { [k \in 1..Len(manifest) |->
       [ custom_id |-> manifest[k].custom_id, json_ok |-> a[k].json_ok,
         has_choices |-> a[k].has_choices, content |-> a[k].content ]] :
    a \in [1..Len(manifest) -> Answers] }

Running == {b \in Batches : pc[b] \notin {"pending", "returned"}}

Init ==
  /\ \E n \in 0..MaxRows : input_df \in Stores(n)
  /\ BATCH_SIZE \in 1..MaxBatchSize
  /\ Len(input_df) > 0 => BATCH_SIZE <= Len(input_df)
  /\ NumBatches(Len(input_df), BATCH_SIZE) <= MaxBatches
  /\ NumBatches(Len(input_df), BATCH_SIZE) > 1 => Len(input_df) <= MaxSplitRows
  /\ MAX_WORKERS \in 1..MaxWorkers
  /\ MAX_WORKERS > 1 => MAX_WORKERS <= NumBatches(Len(input_df), BATCH_SIZE)
  /\ main_pc = "submit"
  /\ futures = 0
  /\ pc = [b \in Batches |-> "pending"]
  /\ start_idx = [b \in Batches |-> 0]
  /\ end_idx = [b \in Batches |-> 0]
  /\ retry_count = [b \in Batches |-> 0]
  /\ status = [b \in Batches |-> "none"]
  /\ batch_file = [b \in Batches |-> << >>]
  /\ request_count = [b \in Batches |-> 0]
  /\ batch_results = [b \in Batches |-> EmptyDict]
  /\ jobs = [b \in Batches |-> << >>]
  /\ exit_line = [b \in Batches |-> 0]
  /\ all_results = EmptyDict
  /\ results_lock = -1
  /\ partial_file = Absent
  /\ output_file = Absent
  /\ events = [b \in Batches |-> {}]
  /\ run = 1
  /\ prior_partial = Absent
  /\ probe = << >>

\* --------------------------------------------------------------- process_batch
\* The worker of batch b returns at the given source line; its locals end
\* with the call.  batch_results stays as the record of what the worker
\* obtained from process_batch_results.
Return(b, line) ==
  /\ pc' = [pc EXCEPT ![b] = "returned"]
  /\ exit_line' = [exit_line EXCEPT ![b] = line]
  /\ retry_count' = [retry_count EXCEPT ![b] = 0]
  /\ batch_file' = [batch_file EXCEPT ![b] = << >>]
  /\ request_count' = [request_count EXCEPT ![b] = 0]
  /\ UNCHANGED batch_results

Met(b, e) == events' = [events EXCEPT ![b] = @ \cup e]

\* PrepFailed without the test of the request count
PrepFailedNoCount(success, count) == ~success

\* lines 272 and 349: not success or request_count == 0
PrepFailed(success, count) == ~success \/ count = 0

\* CanRetry without a ceiling
CanRetryAlways(rc) == TRUE

\* CanRetry with the comparison off by one
CanRetryInclusive(rc) == rc <= max_retries

\* lines 334 and 370: retry_count < max_retries
CanRetry(rc) == rc < max_retries

\* LoopGuard with the comparison of line 370
LoopGuardStrict(rc) == rc < max_retries

\* line 286: while retry_count <= max_retries
LoopGuard(rc) == rc <= max_retries

\* PoolHasThread for a pool without a limit
PoolUnbounded == TRUE

\* line 571: ThreadPoolExecutor(max_workers=MAX_WORKERS) runs a queued task
\* only on a thread that is not running one
PoolHasThread == Cardinality(Running) < MAX_WORKERS

\* The pool runs the tasks in the order main handed them over, at most
\* MAX_WORKERS at a time, also while main waits in the shutdown of the pool.
\* Lines 262-274: the worker prepares its batch file
\* and returns when that fails or holds no request.
ProcessBatchStart(b) ==
  /\ main_pc \in {"submit", "interrupted"}
  /\ b < futures
  /\ pc[b] = "pending"
  /\ \A c \in Batches : c < b => pc[c] # "pending"
  /\ PoolHasThread
  /\ \E success \in BOOLEAN :
       LET requests == IF success
                       THEN BatchRequests(input_df, start_idx[b], end_idx[b])
                       ELSE << >>
       IN /\ Met(b, IF success THEN {} ELSE {"prep_error"})
          /\ IF PrepFailed(success, Len(requests))
             THEN Return(b, 274)
             ELSE /\ pc' = [pc EXCEPT ![b] = "create"]
                  /\ batch_file' = [batch_file EXCEPT ![b] = requests]
                  /\ request_count' = [request_count EXCEPT ![b] = Len(requests)]
                  /\ UNCHANGED << exit_line, retry_count, batch_results >>
          /\ UNCHANGED status
  /\ UNCHANGED << config_vars, main_pc, futures, start_idx, end_idx, jobs,
                  all_results, results_lock, partial_file, output_file, probe >>

\* NoHandle that takes every answer of create_batch_job for a job
NoHandleNever(created) == FALSE

\* lines 278 and 355: `if not batch_job`, create_batch_job returned None
NoHandle(created) == ~created

\* Lines 276-284: create_batch_job uploads the file and creates the job, or
\* returns None.
CreateJob(b) ==
  /\ pc[b] = "create"
  /\ \E created \in BOOLEAN :
       /\ Met(b, IF created THEN {} ELSE {"create_error"})
       /\ IF NoHandle(created)
          THEN /\ Return(b, 280)
               /\ UNCHANGED jobs
          ELSE /\ jobs' = [jobs EXCEPT ![b] = Append(@, batch_file[b])]
               /\ retry_count' = [retry_count EXCEPT ![b] = 0]
               /\ pc' = [pc EXCEPT ![b] = "monitor"]
               /\ UNCHANGED << exit_line, batch_file, request_count,
                               batch_results >>
  /\ UNCHANGED status
  /\ UNCHANGED << config_vars, main_pc, futures, start_idx, end_idx,
                  all_results, results_lock, partial_file, output_file, probe >>

\* Lines 362-364: the job is still running; wait and poll again.
PollRunning(b) ==
  /\ pc[b] = "monitor"
  /\ \E s \in Statuses :
       /\ s \in StillRunning
       /\ status' = [status EXCEPT ![b] = s]
  /\ UNCHANGED << config_vars, main_pc, futures, pc, start_idx, end_idx,
                  retry_count, batch_file, request_count, batch_results, jobs,
                  exit_line, all_results, results_lock, partial_file,
                  output_file, events, probe >>

\* Lines 305-307: the job is completed; process_batch_results downloads and
\* parses its output ({} when the download fails).
PollCompleted(b) ==
  /\ pc[b] = "monitor"
  /\ status' = [status EXCEPT ![b] = "completed"]
  /\ \/ \E out \in Outputs(jobs[b][Len(jobs[b])]) :
          /\ batch_results' = [batch_results EXCEPT ![b] = process_batch_results(out)]
          /\ Met(b, IF \A k \in 1..Len(out) : WellFormed(out[k])
                    THEN {} ELSE {"bad_line"})
     \/ /\ batch_results' = [batch_results EXCEPT ![b] = EmptyDict]
        /\ Met(b, {"download_error"})
  /\ pc' = [pc EXCEPT ![b] = "merge"]
  /\ UNCHANGED << config_vars, main_pc, futures, start_idx, end_idx,
                  retry_count, batch_file, request_count, jobs, exit_line,
                  all_results, results_lock, partial_file, output_file, probe >>

\* LockIsFree for a lock that never blocks
LockNeverBlocks == TRUE

\* line 310: `with results_lock` goes on only when no thread holds the lock
LockIsFree == results_lock = -1

\* Lines 310-313: with results_lock: all_results.update(batch_results)
MergeResults(b) ==
  /\ pc[b] = "merge"
  /\ LockIsFree
  /\ results_lock' = b
  /\ all_results' = DictUpdate(all_results, batch_results[b])
  /\ pc' = [pc EXCEPT ![b] = "save"]
  /\ UNCHANGED << config_vars, main_pc, futures, start_idx, end_idx,
                  retry_count, status, batch_file, request_count, batch_results,
                  jobs, exit_line, partial_file, output_file, events, probe >>

\* Line 316 and lines 451-468: the checkpoint is rewritten from the ledger;
\* an exception of apply_results_to_df is caught and nothing is written.
save_intermediate_results(b) ==
  /\ pc[b] = "save"
  /\ partial_file' = IF ApplyRaises(input_df, all_results) THEN partial_file
                     ELSE Written(apply_results_to_df(input_df, all_results))
  /\ pc' = [pc EXCEPT ![b] = "unlock"]
  /\ UNCHANGED << config_vars, main_pc, futures, start_idx, end_idx,
                  retry_count, status, batch_file, request_count, batch_results,
                  jobs, exit_line, all_results, results_lock, output_file,
                  events, probe >>

\* Lines 317-318: the lock is released and the worker returns.
ReleaseLock(b) ==
  /\ pc[b] = "unlock"
  /\ results_lock' = -1
  /\ Return(b, 318)
  /\ UNCHANGED << config_vars, main_pc, futures, start_idx, end_idx, status, jobs,
                  all_results, partial_file, output_file, events, probe >>

\* MidPoint that keeps the whole range
MidPointNoHalving(s, e) == e

\* mid_point = start_idx + (end_idx - start_idx) // 2
MidPoint(s, e) == s + (e - s) \div 2

\* Lines 319-361: the job failed.  Below the ceiling the counter is raised,
\* from the second retry on the range is halved and prepared again, and a new
\* job is created; at the ceiling the worker gives up.
PollFailed(b) ==
  /\ pc[b] = "monitor"
  /\ status' = [status EXCEPT ![b] = "failed"]
  /\ IF CanRetry(retry_count[b])
     THEN LET rc == retry_count[b] + 1
              halve == rc > 1
              e == IF halve THEN MidPoint(start_idx[b], end_idx[b]) ELSE end_idx[b]
          IN /\ end_idx' = [end_idx EXCEPT ![b] = e]
             /\ \E success \in BOOLEAN, created \in BOOLEAN :
                  LET requests == IF ~halve THEN batch_file[b]
                                  ELSE IF success
                                  THEN BatchRequests(input_df, start_idx[b], e)
                                  ELSE << >>
                  IN IF halve /\ PrepFailed(success, Len(requests))
                     THEN /\ Return(b, 351)
                          /\ Met(b, {"failed"})
                          /\ UNCHANGED jobs
                     ELSE IF NoHandle(created)
                     THEN /\ Return(b, 357)
                          /\ Met(b, {"failed", "create_error"})
                          /\ UNCHANGED jobs
                     ELSE /\ Met(b, {"failed"} \cup
                                    (IF created THEN {} ELSE {"create_error"}))
                          /\ jobs' = [jobs EXCEPT ![b] = Append(@, requests)]
                          /\ IF LoopGuard(rc)
                             THEN /\ retry_count' = [retry_count EXCEPT ![b] = rc]
                                  /\ batch_file' = [batch_file EXCEPT ![b] = requests]
                                  /\ request_count' =
                                       [request_count EXCEPT ![b] = Len(requests)]
                                  /\ UNCHANGED << pc, exit_line, batch_results >>
                             ELSE Return(b, 286)
     ELSE /\ Return(b, 361)
          /\ Met(b, {"failed"})
          /\ UNCHANGED << end_idx, jobs >>
  /\ UNCHANGED << config_vars, main_pc, futures, start_idx, all_results,
                  results_lock, partial_file, output_file, probe >>

\* Lines 365-367: any other status ends the worker.
PollUnexpected(b) ==
  /\ pc[b] = "monitor"
  /\ \E s \in Statuses :
       /\ s \notin StillRunning \cup {"completed", "failed"}
       /\ status' = [status EXCEPT ![b] = s]
  /\ Return(b, 367)
  /\ UNCHANGED << config_vars, main_pc, futures, start_idx, end_idx, jobs,
                  all_results, results_lock, partial_file, output_file, events,
                  probe >>

\* Lines 368-376: the status query raised.
PollError(b) ==
  /\ pc[b] = "monitor"
  /\ Met(b, {"poll_error"})
  /\ IF CanRetry(retry_count[b])
     THEN IF LoopGuard(retry_count[b] + 1)
          THEN /\ retry_count' = [retry_count EXCEPT ![b] = @ + 1]
               /\ UNCHANGED << pc, exit_line, batch_file, request_count,
                               batch_results >>
          ELSE Return(b, 286)
     ELSE Return(b, 376)
  /\ UNCHANGED status
  /\ UNCHANGED << config_vars, main_pc, futures, start_idx, end_idx, jobs,
                  all_results, results_lock, partial_file, output_file, probe >>

\* ------------------------------------------------------------------------ main
\* line 576: start_idx = batch_idx * BATCH_SIZE
StartIdx(batch_idx, size) == batch_idx * size

\* EndIdx without the min
EndIdxNoMin(batch_idx, size, n) == StartIdx(batch_idx, size) + size

\* line 577: end_idx = min(start_idx + BATCH_SIZE, total_rows)
EndIdx(batch_idx, size, n) == Min(StartIdx(batch_idx, size) + size, n)

\* Lines 574-594: one task per batch, in order.
MainSubmit ==
  /\ main_pc = "submit"
  /\ futures < num_batches
  /\ futures' = futures + 1
  /\ start_idx' = [start_idx EXCEPT ![futures] = StartIdx(futures, BATCH_SIZE)]
  /\ end_idx' = [end_idx EXCEPT ![futures] =
                   EndIdx(futures, BATCH_SIZE, total_rows)]
  /\ UNCHANGED << config_vars, main_pc, pc, retry_count, status, batch_file,
                  request_count, batch_results, jobs, exit_line, all_results,
                  results_lock, partial_file, output_file, events, probe >>

\* Lines 596-614: when every worker has returned the final output is written
\* from the ledger; an exception ends main without it.
MainFinal ==
  /\ main_pc = "submit"
  /\ futures = num_batches
  /\ \A b \in Batches : pc[b] = "returned"
  /\ IF ApplyRaises(input_df, all_results)
     THEN /\ main_pc' = "error"
          /\ UNCHANGED output_file
     ELSE /\ output_file' = Written(apply_results_to_df(input_df, all_results))
          /\ main_pc' = IF total_rows = 0 THEN "error" ELSE "done"
  /\ UNCHANGED << config_vars, futures, worker_vars, all_results, results_lock,
                  partial_file, probe >>

Next ==
  \/ MainSubmit
  \/ MainFinal
  \/ \E b \in Batches : ProcessBatchStart(b)
  \/ \E b \in Batches : CreateJob(b)
  \/ \E b \in Batches : PollRunning(b)
  \/ \E b \in Batches : PollCompleted(b)
  \/ \E b \in Batches : PollFailed(b)
  \/ \E b \in Batches : PollUnexpected(b)
  \/ \E b \in Batches : PollError(b)
  \/ \E b \in Batches : MergeResults(b)
  \/ \E b \in Batches : save_intermediate_results(b)
  \/ \E b \in Batches : ReleaseLock(b)

Spec == Init /\ [][Next]_vars

\* ---------------------------------------------------------- a second run
\* The process is interrupted after a checkpoint was written and the pipeline
\* is started again on the same input.  The module starts with an empty
\* ledger (line 50) and main reads the input CSV only (lines 529-548); the
\* files on disk are left as they are.
Restart ==
  /\ run < MaxRuns
  /\ main_pc = "submit"
  /\ partial_file # Absent
  /\ run' = run + 1
  /\ prior_partial' = partial_file
  /\ futures' = 0
  /\ pc' = [b \in Batches |-> "pending"]
  /\ start_idx' = [b \in Batches |-> 0]
  /\ end_idx' = [b \in Batches |-> 0]
  /\ retry_count' = [b \in Batches |-> 0]
  /\ status' = [b \in Batches |-> "none"]
  /\ batch_file' = [b \in Batches |-> << >>]
  /\ request_count' = [b \in Batches |-> 0]
  /\ batch_results' = [b \in Batches |-> EmptyDict]
  /\ jobs' = [b \in Batches |-> << >>]
  /\ exit_line' = [b \in Batches |-> 0]
  /\ events' = [b \in Batches |-> {}]
  /\ all_results' = EmptyDict
  /\ results_lock' = -1
  /\ UNCHANGED << input_df, BATCH_SIZE, MAX_WORKERS, main_pc, partial_file,
                  output_file, probe >>

InitResume == Init /\ Len(input_df) <= MaxResumeRows

NextResume ==
  \/ Next
  \/ Restart

SpecResume == InitResume /\ [][NextResume]_vars

\* --------------------------------------------------------------- scheduling
\* main and the threads of the pool keep running: a step that stays possible
\* is taken.  The service brings every job to an end: a job that is polled
\* again and again reports, at some poll, `completed`, `failed` or a status
\* that process_batch does not know.
JobEnds(b) ==
  /\ b \in Batches
  /\ (PollCompleted(b) \/ PollFailed(b) \/ PollUnexpected(b))

Scheduling ==
  /\ WF_vars(MainSubmit)
  /\ WF_vars(MainFinal)
  /\ \A b \in 0..(MaxBatches - 1) :
       /\ WF_vars(b \in Batches /\ ProcessBatchStart(b))
       /\ WF_vars(b \in Batches /\ CreateJob(b))
       /\ WF_vars(b \in Batches /\ MergeResults(b))
       /\ WF_vars(b \in Batches /\ save_intermediate_results(b))
       /\ WF_vars(b \in Batches /\ ReleaseLock(b))
       /\ SF_vars(JobEnds(b))

InitLive == Init /\ Len(input_df) <= MaxLiveRows

SpecLive == InitLive /\ [][Next]_vars /\ Scheduling

\* ------------------------------------------------------------ an interrupt
\* KeyboardInterrupt is raised in main inside the `with ThreadPoolExecutor`
\* block (lines 571-600), in the sleep of line 594 or the wait of line 600.
\* Leaving the block calls shutdown(wait=True): main hands over no further
\* task and waits for the pool, whose threads go on with the tasks already
\* handed over.
Interrupt ==
  /\ main_pc = "submit"
  /\ main_pc' = "interrupted"
  /\ UNCHANGED << config_vars, futures, worker_vars, all_results, results_lock,
                  partial_file, output_file, probe >>

\* The pool has run every task it was given; KeyboardInterrupt is no
\* Exception, so the handler of line 611 does not catch it and main ends
\* without the lines 603-609.
MainExit ==
  /\ main_pc = "interrupted"
  /\ \A b \in Batches : b < futures => pc[b] = "returned"
  /\ main_pc' = "exited"
  /\ UNCHANGED << config_vars, futures, worker_vars, all_results, results_lock,
                  partial_file, output_file, probe >>

InitInterrupt == Init /\ Len(input_df) <= MaxInterruptRows

NextInterrupt ==
  \/ Next
  \/ Interrupt
  \/ MainExit

SpecInterrupt == InitInterrupt /\ [][NextInterrupt]_vars

\* ------------------------------------------- function-level specifications
\* The pipeline at rest on an empty store; only probe moves.
Idle ==
  /\ input_df = << >>
  /\ BATCH_SIZE = 1
  /\ MAX_WORKERS = 1
  /\ main_pc = "submit"
  /\ futures = 0
  /\ pc = << >>
  /\ start_idx = << >>
  /\ end_idx = << >>
  /\ retry_count = << >>
  /\ status = << >>
  /\ batch_file = << >>
  /\ request_count = << >>
  /\ batch_results = << >>
  /\ jobs = << >>
  /\ exit_line = << >>
  /\ all_results = EmptyDict
  /\ results_lock = -1
  /\ partial_file = Absent
  /\ output_file = Absent
  /\ events = << >>
  /\ run = 1
  /\ prior_partial = Absent

pipeline_vars ==
  << config_vars, main_pc, futures, worker_vars, all_results, results_lock,
     partial_file, output_file >>

\* A store whose every row carries a title.
FullStore(n) ==
  [k \in 1..n |-> [ learning_outcome_title |-> << "x" >>,
                    learning_outcome_details |-> << >> ]]

\* The request identifier of row i, built by prepare_batch_request.
IdEncode ==
  /\ probe.stage = "start"
  /\ \E i \in 0..MaxPos :
       probe' = [ stage |-> "encoded", i |-> i,
                  custom_id |->
                    BatchRequests(FullStore(MaxPos + 1), i, i + 1)[1].custom_id ]
  /\ UNCHANGED pipeline_vars

\* The output line that carries the identifier, parsed by
\* process_batch_results.
IdDecode ==
  /\ probe.stage = "encoded"
  /\ probe' =
       [ stage |-> "decoded", i |-> probe.i, custom_id |-> probe.custom_id,
         results |->
           process_batch_results(
             << [ custom_id |-> probe.custom_id, json_ok |-> TRUE,
                  has_choices |-> TRUE, content |-> GoodScores ] >>) ]
  /\ UNCHANGED pipeline_vars

InitId == Idle /\ probe = [stage |-> "start"]

NextId == IdEncode \/ IdDecode

SpecId == InitId /\ [][NextId]_vars

\* The entries the parser builds from the answers of the service.
OtherScores ==
  [ kind |-> "mapping",
    pairs |-> << << "Spiritually Strengthening", 3 >> >> ]

Entries ==
  { ParseLine([ custom_id |-> CustomId(0), json_ok |-> TRUE,
                has_choices |-> TRUE, content |-> c ])[2] :
    c \in {GoodScores, NoScores, OtherScores} }

\* The dictionaries over the rows 0..MaxKeys-1.
Dicts == UNION { [d -> Entries] : d \in SUBSET (0..(MaxKeys - 1)) }

MergeChoose ==
  /\ probe.stage = "start"
  /\ \E l \in Dicts, r \in Dicts :
       probe' = [stage |-> "chosen", all_results |-> l, batch_results |-> r]
  /\ UNCHANGED pipeline_vars

\* all_results.update(batch_results)
MergeFirst ==
  /\ probe.stage = "chosen"
  /\ probe' = [ stage |-> "merged",
                all_results |-> DictUpdate(probe.all_results, probe.batch_results),
                batch_results |-> probe.batch_results ]
  /\ UNCHANGED pipeline_vars

\* the same update once more
MergeAgain ==
  /\ probe.stage = "merged"
  /\ probe' = [ stage |-> "merged_twice",
                all_results |-> DictUpdate(probe.all_results, probe.batch_results),
                batch_results |-> probe.batch_results,
                after_first |-> probe.all_results ]
  /\ UNCHANGED pipeline_vars

InitMerge == Idle /\ probe = [stage |-> "start"]

NextMerge == MergeChoose \/ MergeFirst \/ MergeAgain

SpecMerge == InitMerge /\ [][NextMerge]_vars

\* The monitor loop of one worker against the clock: probe.clock is the time
\* the worker has spent in time.sleep since its first job was created.
\* probe.waits holds, for each resubmission, the time slept between the poll
\* that returned `failed` and the creation of the new job; probe.gaps holds
\* the times between two successive polls of one job.
InitTimed ==
  /\ Idle
  /\ probe = [ stage |-> "sleep", retry_count |-> 0, clock |-> 0, polls |-> 0,
               last_poll |-> -1, waits |-> << >>, gaps |-> {} ]

\* line 289: the wait before the first poll of a job
TimedInitialWait ==
  /\ probe.stage = "sleep"
  /\ probe' = [probe EXCEPT !.stage = "poll", !.clock = @ + CHECK_INTERVAL]
  /\ UNCHANGED pipeline_vars

\* The poll of line 293, with the gap since the poll before it.
Polled(p) ==
  [p EXCEPT !.polls = @ + 1, !.last_poll = p.clock,
            !.gaps = IF p.last_poll < 0 THEN @ ELSE @ \cup {p.clock - p.last_poll}]

\* lines 362-364: still running, sleep CHECK_INTERVAL and poll again
TimedPollRunning ==
  /\ probe.stage = "poll"
  /\ probe.polls < MaxPolls
  /\ probe' = [Polled(probe) EXCEPT !.clock = @ + CHECK_INTERVAL]
  /\ UNCHANGED pipeline_vars

\* lines 319-361: the job failed; below the ceiling the new job is created
\* in the same pass, with no sleep between lines 334 and 354
TimedPollFailed ==
  /\ probe.stage = "poll"
  /\ probe' =
       IF CanRetry(probe.retry_count)
       THEN LET seen == probe.clock
                created == probe.clock
            IN [Polled(probe) EXCEPT !.stage = "sleep", !.retry_count = @ + 1,
                                     !.polls = 0, !.last_poll = -1,
                                     !.waits = Append(@, created - seen)]
       ELSE [Polled(probe) EXCEPT !.stage = "done"]
  /\ UNCHANGED pipeline_vars

\* lines 368-376: the status query raised; below the ceiling the worker
\* sleeps CHECK_INTERVAL and enters the outer loop again (line 289)
TimedPollError ==
  /\ probe.stage = "poll"
  /\ probe.polls < MaxPolls
  /\ probe' =
       IF CanRetry(probe.retry_count)
       THEN [probe EXCEPT !.stage = "sleep", !.retry_count = @ + 1,
                          !.polls = @ + 1, !.clock = @ + CHECK_INTERVAL]
       ELSE [probe EXCEPT !.stage = "done"]
  /\ UNCHANGED pipeline_vars

\* lines 305-318: the job completed
TimedPollCompleted ==
  /\ probe.stage = "poll"
  /\ probe' = [Polled(probe) EXCEPT !.stage = "done"]
  /\ UNCHANGED pipeline_vars

NextTimed ==
  \/ TimedInitialWait
  \/ TimedPollRunning
  \/ TimedPollFailed
  \/ TimedPollCompleted
  \/ TimedPollError

SpecTimed == InitTimed /\ [][NextTimed]_vars

\* The score mappings the service can answer with: up to MaxPairs taxonomy
\* categories in any order, each with a score.
Mappings ==
  UNION { { p \in [1..n -> AimSet \X (0..MaxScore)] :
              \A j, k \in 1..n : j # k => p[j][1] # p[k][1] } :
          n \in 0..MaxPairs }

TopChoose ==
  /\ probe.stage = "start"
  /\ \E p \in Mappings : probe' = [stage |-> "chosen", pairs |-> p]
  /\ UNCHANGED pipeline_vars

\* The output line with that mapping as its message content, parsed by
\* process_batch_results.
TopParse ==
  /\ probe.stage = "chosen"
  /\ probe' =
       [ stage |-> "parsed", pairs |-> probe.pairs,
         results |->
           process_batch_results(
             << [ custom_id |-> CustomId(0), json_ok |-> TRUE,
                  has_choices |-> TRUE,
                  content |-> [kind |-> "mapping", pairs |-> probe.pairs] ] >>) ]
  /\ UNCHANGED pipeline_vars

InitTop == Idle /\ probe = [stage |-> "start"]

NextTop == TopChoose \/ TopParse

SpecTop == InitTop /\ [][NextTop]_vars

\* The loop of lines 574-592 for a store of n rows and a batch size:
\* probe.ranges holds the ranges handed to the pool so far.
PartitionChoose ==
  /\ probe.stage = "start"
  /\ \E n \in 0..MaxPartRows, size \in 1..MaxPartBatch :
       probe' = [stage |-> "loop", n |-> n, size |-> size, ranges |-> << >>]
  /\ UNCHANGED pipeline_vars

PartitionSubmit ==
  /\ probe.stage = "loop"
  /\ LET batch_idx == Len(probe.ranges)
     IN IF batch_idx < NumBatches(probe.n, probe.size)
        THEN probe' =
               [probe EXCEPT !.ranges =
                  Append(@, << StartIdx(batch_idx, probe.size),
                               EndIdx(batch_idx, probe.size, probe.n) >>)]
        ELSE probe' = [probe EXCEPT !.stage = "submitted"]
  /\ UNCHANGED pipeline_vars

InitPartition == Idle /\ probe = [stage |-> "start"]

NextPartition == PartitionChoose \/ PartitionSubmit

SpecPartition == InitPartition /\ [][NextPartition]_vars

\* The lines an output file can hold at position k (the line answering the
\* request of row k - 1): a line with scores, one that is not JSON, one
\* without custom_id, one whose custom_id has another prefix or no number,
\* one without choices, and lines whose message content is not JSON, is
\* "null", "[]", a number, "{}", or a mapping with a key that is no
\* category of BYU_AIMS.
GoodLine(k) ==
  [ custom_id |-> CustomId(k - 1), json_ok |-> TRUE, has_choices |-> TRUE,
    content |-> GoodScores ]

LinesAt(k) ==
  { GoodLine(k),
    [GoodLine(k) EXCEPT !.json_ok = FALSE],
    [GoodLine(k) EXCEPT !.custom_id = << >>],
    [GoodLine(k) EXCEPT !.custom_id = << "r", "o", "w", "-" >> \o IntToStr(k - 1)],
    [GoodLine(k) EXCEPT !.custom_id = Prefix \o << "x" >>],
    [GoodLine(k) EXCEPT !.has_choices = FALSE],
    [GoodLine(k) EXCEPT !.content = [kind |-> "invalid_json", pairs |-> << >>]],
    [GoodLine(k) EXCEPT !.content = NullScores],
    [GoodLine(k) EXCEPT !.content = [kind |-> "empty_list", pairs |-> << >>]],
    [GoodLine(k) EXCEPT !.content = [kind |-> "truthy_other", pairs |-> << >>]],
    [GoodLine(k) EXCEPT !.content = NoScores],
    [GoodLine(k) EXCEPT !.content =
       [ kind |-> "mapping",
         pairs |-> << << "Character Building", 1 >>, << "Other", 2 >> >> ]] }

OutputFiles ==
  UNION { { f \in [1..n -> UNION {LinesAt(k) : k \in 1..n}] :
              \A k \in 1..n : f[k] \in LinesAt(k) } :
          n \in 1..MaxLines }

ParseChoose ==
  /\ probe.stage = "start"
  /\ \E f \in OutputFiles : probe' = [stage |-> "chosen", lines |-> f]
  /\ UNCHANGED pipeline_vars

\* process_batch_results on the downloaded file
ParseFile ==
  /\ probe.stage = "chosen"
  /\ probe' = [ stage |-> "parsed", lines |-> probe.lines,
                results |-> process_batch_results(probe.lines) ]
  /\ UNCHANGED pipeline_vars

InitParse == Idle /\ probe = [stage |-> "start"]

NextParse == ParseChoose \/ ParseFile

SpecParse == InitParse /\ [][NextParse]_vars

\* ------------------------------------------------------------------ claims
Last(seq) == seq[Len(seq)]

Ids(manifest) == {manifest[k].custom_id : k \in 1..Len(manifest)}

RangeSize(s, e) == e - s

\* Row i of the store has both text fields blank after trimming.
BlankRow(i) ==
  /\ Strip(input_df[i + 1].learning_outcome_title) = << >>
  /\ Strip(input_df[i + 1].learning_outcome_details) = << >>

Rows == 0..(total_rows - 1)

\* C1 (as amended): the retry counter of every worker starts at 0 and stays
\* within 0..max_retries, the worker never has more resubmissions than
\* retries and creates at most 1 + max_retries jobs; a worker that has met
\* nothing but `failed` jobs and gives up on the ceiling (line 361) has made
\* exactly max_retries resubmissions, and one that stops because a halved
\* range holds no valid request (line 351) has made at least one and fewer
\* than max_retries.
C1_RetryBounded ==
  \A b \in Batches :
    /\ retry_count[b] \in 0..max_retries
    /\ Len(jobs[b]) <= 1 + max_retries
    /\ pc[b] = "monitor" => Len(jobs[b]) <= 1 + retry_count[b]
    /\ (pc[b] = "monitor" /\ events[b] = {}) => retry_count[b] = 0
    /\ (pc[b] = "returned" /\ events[b] = {"failed"} /\ exit_line[b] = 361)
         => Len(jobs[b]) = 1 + max_retries
    /\ (pc[b] = "returned" /\ events[b] = {"failed"} /\ exit_line[b] = 351)
         => Len(jobs[b]) \in 2..max_retries

\* C1 witness: a worker whose jobs all failed has given up after its third
\* resubmission.
C1_Witness ==
  \E b \in Batches :
    /\ pc[b] = "returned" /\ exit_line[b] = 361
    /\ events[b] = {"failed"}
    /\ Len(jobs[b]) = 1 + max_retries

\* C1 as stated: the bounds, and every worker that met nothing but `failed`
\* jobs stops after exactly max_retries resubmissions.
C1_Original ==
  \A b \in Batches :
    /\ retry_count[b] \in 0..max_retries
    /\ Len(jobs[b]) <= 1 + max_retries
    /\ (pc[b] = "returned" /\ events[b] = {"failed"}
          /\ exit_line[b] \in {351, 361})
         => Len(jobs[b]) = 1 + max_retries

\* C2: on every resubmission after the first the range submitted is not
\* empty and is strictly smaller than the range submitted before (or both
\* have size 1); the first resubmission is not empty and not larger.
C2_Step ==
  \A b \in Batches :
    Len(jobs'[b]) = Len(jobs[b]) + 1 /\ Len(jobs[b]) >= 1 =>
      LET old == RangeSize(start_idx[b], end_idx[b])
          new == RangeSize(start_idx'[b], end_idx'[b])
      IN /\ new >= 1
         /\ new <= old
         /\ Len(jobs[b]) >= 2 => (new < old \/ (old = 1 /\ new = 1))

C2_RangeShrinks == [][C2_Step]_vars

\* C2 witness: a worker whose jobs all failed has resubmitted twice.
C2_Witness ==
  \E b \in Batches :
    /\ events[b] = {"failed"} /\ pc[b] = "monitor"
    /\ Len(jobs[b]) = 3
    /\ RangeSize(start_idx[b], end_idx[b]) < BATCH_SIZE

\* C3 as stated: when the run has ended, all rows are valid, no worker met a
\* submission, polling, download or parse failure and every status polled was
\* one of the job state machine's other than `failed`, the ledger holds
\* exactly the rows 0..N-1.
C3_Complete ==
  ( /\ main_pc # "submit"
    /\ \A i \in Rows : ~BlankRow(i)
    /\ \A b \in Batches :
         events[b] = {}
         /\ status[b] \in {"queued", "validating", "in_progress", "finalizing",
                           "completed"} )
  => DOMAIN all_results = Rows

\* Rows that carry a classification in a checkpoint.
Classified(file, i) ==
  /\ file.exists
  /\ \/ file.rows[i + 1].best_aim # {}
     \/ \E a \in AimSet : file.rows[i + 1].conf[a] # {}

\* C4 as stated: in a run started after an interruption no job holds a
\* request for a row that the checkpoint found at the start shows as
\* classified.
C4_NoResubmit ==
  run > 1 =>
    \A b \in Batches : \A j \in 1..Len(jobs[b]) : \A i \in Rows :
      Classified(prior_partial, i) => CustomId(i) \notin Ids(jobs[b][j])

\* C5: merging a set of entries a second time leaves the ledger as the first
\* merge left it.
C5_IdempotentMerge ==
  probe.stage = "merged_twice" =>
    /\ probe.all_results = probe.after_first
    /\ DOMAIN probe.all_results = DOMAIN probe.after_first

\* C5 witness: a second merge of a set that replaced a stored entry by a
\* different one and added a new row.
C5_Witness ==
  /\ probe.stage = "merged_twice"
  /\ \E k \in DOMAIN probe.batch_results \ {0} : TRUE
  /\ 0 \in DOMAIN probe.batch_results
  /\ probe.batch_results[0].scores = GoodScores
  /\ Cardinality(DOMAIN probe.all_results) > Cardinality(DOMAIN probe.batch_results)

\* C6: the identifier built for row i is parsed back to exactly i, and no
\* other row of the store gets the same identifier.
C6_RoundTrip ==
  /\ probe.stage = "decoded" => DOMAIN probe.results = {probe.i}
  /\ probe.stage \in {"encoded", "decoded"} =>
       \A j \in 0..MaxPos : j # probe.i => CustomId(j) # probe.custom_id

\* C6 witness: a three-digit row index has made the round trip.
C6_Witness ==
  /\ probe.stage = "decoded"
  /\ probe.i >= 100
  /\ probe.i \in DOMAIN probe.results

\* C7: no job ever holds a request for a row with both fields blank, and
\* every job holds a request for each other row of the range it was built
\* for.
C7_NoBlank ==
  \A b \in Batches : \A j \in 1..Len(jobs[b]) : \A i \in Rows :
    BlankRow(i) => CustomId(i) \notin Ids(jobs[b][j])

C7_AllValid ==
  \A b \in Batches :
    Len(jobs'[b]) = Len(jobs[b]) + 1 =>
      \A i \in Rows :
        (start_idx'[b] <= i /\ i < end_idx'[b] /\ ~BlankRow(i))
          => CustomId(i) \in Ids(Last(jobs'[b]))

C7_BlankNeverSubmitted == []C7_NoBlank /\ [][C7_AllValid]_vars

\* C7 witness: a job resubmitted for a halved range that holds a blank row
\* and a row with text.
C7_Witness ==
  \E b \in Batches :
    /\ Len(jobs[b]) >= 3
    /\ \E i, k \in Rows :
         /\ start_idx[b] <= i /\ i < end_idx[b] /\ BlankRow(i)
         /\ start_idx[b] <= k /\ k < end_idx[b] /\ ~BlankRow(k)

\* The rows of a written file against a ledger: one row per record in the
\* order of the store; empty classification cells without an entry, the
\* entry's taxonomy scores and selected category with one.
RowsMatch(rows, ledger) ==
  /\ Len(rows) = total_rows
  /\ \A k \in 1..Len(rows) :
       /\ rows[k].rec = input_df[k]
       /\ (k - 1) \notin DOMAIN ledger =>
            /\ rows[k].best_aim = {}
            /\ \A a \in AimSet : rows[k].conf[a] = {}
       /\ (k - 1) \in DOMAIN ledger =>
            LET e == ledger[k - 1]
                p == e.scores.pairs
            IN /\ rows[k].best_aim = {e.best_aim} \ {""}
               /\ \A a \in AimSet :
                    rows[k].conf[a] =
                      {p[n][2] : n \in {m \in 1..Len(p) : p[m][1] = a}}

\* C8: whenever the checkpoint or the final output is written, its rows are
\* those of the store, in order, filled from the ledger of that moment.
C8_Step ==
  /\ partial_file' # partial_file => RowsMatch(partial_file'.rows, all_results')
  /\ output_file' # output_file => RowsMatch(output_file'.rows, all_results')

C9_Inv ==
  \A b \in Batches :
    /\ \A j \in 1..Len(jobs[b]) : Len(jobs[b][j]) > 0
    /\ exit_line[b] = 274 => jobs[b] = << >>
    /\ "prep_error" \in events[b] => pc[b] = "returned"

C9_Step ==
  \A b \in Batches :
    /\ exit_line'[b] \in {274, 351} => jobs'[b] = jobs[b]
    /\ Len(jobs'[b]) > Len(jobs[b]) => "prep_error" \notin events'[b]

C9_EmptyNeverSubmitted == []C9_Inv /\ [][C9_Step]_vars

\* C9 witness: a worker has returned at line 351 because the halved range
\* holds no valid row, after two jobs.
C9_Witness ==
  \E b \in Batches :
    /\ exit_line[b] = 351
    /\ "prep_error" \notin events[b]
    /\ Len(jobs[b]) = 2
    /\ end_idx[b] > start_idx[b]

\* C10 as stated: a poll that returns queued, validating, in_progress or
\* finalizing leaves the worker in the monitor loop with the same job, and
\* the loop is left only on completed, failed, a status outside the six, or
\* an exhausted polling error.
NonTerminal == {"queued", "validating", "in_progress", "finalizing"}

C10_Step ==
  \A b \in Batches :
    pc[b] = "monitor" =>
      /\ (status'[b] \in NonTerminal /\ exit_line'[b] # 376)
           => (pc'[b] = "monitor" /\ jobs'[b] = jobs[b])
      /\ pc'[b] # "monitor"
           => \/ status'[b] \in {"completed", "failed"}
              \/ status'[b] \in Statuses \ (NonTerminal \cup {"completed", "failed"})
              \/ exit_line'[b] = 376

C10_MonitorLoop == [][C10_Step]_vars

\* The workers inside the `with results_lock` block of lines 310-316.
InCritical == {b \in Batches : pc[b] \in {"save", "unlock"}}

\* C11: at most one worker is inside the block guarded by results_lock and it
\* is the holder of the lock; the ledger changes only in a step in which a
\* worker takes the free lock, and the checkpoint is written only by the
\* worker that holds the lock, with the ledger left as it is.
C11_Inv ==
  /\ Cardinality(InCritical) <= 1
  /\ results_lock = -1 => InCritical = {}
  /\ results_lock # -1 => InCritical = {results_lock}

C11_Step ==
  /\ all_results' # all_results =>
        /\ results_lock = -1
        /\ results_lock' \in Batches
        /\ pc[results_lock'] = "merge" /\ pc'[results_lock'] = "save"
  /\ partial_file' # partial_file =>
        /\ results_lock \in Batches /\ results_lock' = results_lock
        /\ pc[results_lock] = "save"
        /\ all_results' = all_results
        /\ \A c \in Batches \ {results_lock} : pc'[c] = pc[c]

C11_MutualExclusion == []C11_Inv /\ [][C11_Step]_vars

\* C11 witness: a worker holds the lock with its checkpoint written while
\* another worker waits with results to merge.
C11_Witness ==
  \E b, c \in Batches :
    /\ b # c
    /\ results_lock = b /\ pc[b] = "unlock" /\ partial_file.exists
    /\ pc[c] = "merge" /\ DOMAIN batch_results[c] # {}

\* C12 as stated: whenever no worker holds the lock and some worker has
\* merged the results of a completed job, the checkpoint exists and its rows
\* are those of the store filled from the current ledger.
C12_CheckpointAfterMerge ==
  (results_lock = -1 /\ \E b \in Batches : exit_line[b] = 318)
    => /\ partial_file.exists
       /\ RowsMatch(partial_file.rows, all_results)

\* C13 as stated: when main has ended, every worker has returned, a worker
\* that met no failure has its rows in the ledger whatever the other workers
\* met, and the final output exists with the rows of the store filled from
\* the ledger.
C13_Contained ==
  main_pc # "submit" =>
    /\ \A b \in Batches : pc[b] = "returned"
    /\ \A b \in Batches :
         (events[b] = {} /\ status[b] = "completed") =>
           \A i \in Rows :
             (start_idx[b] <= i /\ i < end_idx[b] /\ ~BlankRow(i))
               => i \in DOMAIN all_results
    /\ output_file.exists
    /\ RowsMatch(output_file.rows, all_results)

\* The range main gave to the worker of batch b.
InBatch(b, i) ==
  b * BATCH_SIZE <= i /\ i < Min(b * BATCH_SIZE + BATCH_SIZE, total_rows)

\* C14: a worker whose upload or job creation failed, at the first
\* submission or at a resubmission, has returned at once (line 280 or 357);
\* the failed step creates no job, after it the worker creates no job and
\* polls nothing, and no row of its batch is in the ledger.
C14_Inv ==
  \A b \in Batches :
    "create_error" \in events[b] =>
      /\ pc[b] = "returned"
      /\ exit_line[b] \in {280, 357}
      /\ exit_line[b] = 280 => jobs[b] = << >>
      /\ \A i \in Rows : InBatch(b, i) => i \notin DOMAIN all_results

C14_Step ==
  \A b \in Batches :
    /\ "create_error" \in events'[b] => jobs'[b] = jobs[b]
    /\ "create_error" \in events[b] =>
         /\ status'[b] = status[b]
         /\ pc'[b] = pc[b]
         /\ exit_line'[b] = exit_line[b]

C14_SubmissionNotRetried == []C14_Inv /\ [][C14_Step]_vars

\* C14 witness: the second resubmission, for a halved range, failed after
\* two jobs and the worker returned at line 357.
C14_Witness ==
  \E b \in Batches :
    /\ "create_error" \in events[b]
    /\ exit_line[b] = 357 /\ Len(jobs[b]) = 2
    /\ RangeSize(start_idx[b], end_idx[b]) < BATCH_SIZE

\* C15 as stated: the wait before every resubmission is positive and at
\* least twice the wait before the resubmission before it, and two successive
\* polls of a job are CHECK_INTERVAL apart.
C15_Backoff ==
  /\ \A k \in 1..Len(probe.waits) :
       /\ probe.waits[k] > 0
       /\ k > 1 => probe.waits[k] >= 2 * probe.waits[k - 1]
  /\ probe.gaps \subseteq {CHECK_INTERVAL}

\* Position of a category in the canonical taxonomy order.
AimPos(a) == CHOOSE k \in 1..Len(BYU_AIMS) : BYU_AIMS[k] = a

\* C16 as stated: for every score mapping that is not empty the selected top
\* category is a category of the mapping with the greatest score, and no
\* category earlier in BYU_AIMS has that score as well.
C16_TopCategory ==
  (probe.stage = "parsed" /\ Len(probe.pairs) > 0) =>
    LET p == probe.pairs
        best == probe.results[0].best_aim
    IN /\ best \in AimSet
       /\ HasKey(p, best)
       /\ \A k \in 1..Len(p) :
            /\ p[k][2] <= ValueOf(p, best)
            /\ p[k][2] = ValueOf(p, best) => AimPos(best) <= AimPos(p[k][1])

\* C17 as stated: once main has been interrupted no worker that has not
\* started begins its batch, main hands over no further batch, no batch gets
\* its first job, and main exits only when no worker is in the middle of its
\* batch.
C17_Step ==
  main_pc \in {"interrupted", "exited"} =>
    /\ futures' = futures
    /\ \A b \in Batches :
         /\ pc[b] = "pending" => pc'[b] = "pending"
         /\ jobs[b] = << >> => jobs'[b] = << >>
    /\ main_pc' = "exited" => \A b \in Batches : pc[b] \in {"pending", "returned"}

C17_Drain == [][C17_Step]_vars

\* C18: the ranges main hands over are [k*B, min((k+1)*B, N)) for
\* k = 0, 1, ...: the first starts at 0, each starts where the one before
\* ends, each holds between 1 and B positions; when the loop has ended there
\* are ceil(N/B) of them (the least c with c*B >= N), the last ends at N, and
\* every position of [0, N) lies in exactly one.
C18_Partition ==
  probe.stage \in {"loop", "submitted"} =>
    LET r == probe.ranges
        n == probe.n
        size == probe.size
    IN /\ \A k \in 1..Len(r) :
            /\ r[k][1] = (k - 1) * size
            /\ r[k][2] = IF k * size < n THEN k * size ELSE n
            /\ r[k][2] - r[k][1] \in 1..size
            /\ r[k][1] = IF k = 1 THEN 0 ELSE r[k - 1][2]
       /\ probe.stage = "submitted" =>
            /\ Len(r) * size >= n
            /\ \A c \in 0..(Len(r) - 1) : c * size < n
            /\ n > 0 => r[Len(r)][2] = n
            /\ \A i \in 0..(n - 1) :
                 Cardinality({k \in 1..Len(r) : r[k][1] <= i /\ i < r[k][2]}) = 1

\* C18 witness: a store split into three or more ranges, the last of them
\* short.
C18_Witness ==
  /\ probe.stage = "submitted"
  /\ Len(probe.ranges) >= 3
  /\ Last(probe.ranges)[2] - Last(probe.ranges)[1] < probe.size

\* The workers that have merged their results into the ledger.
Merged == {b \in Batches : pc[b] \in {"save", "unlock"} \/ exit_line[b] = 318}

\* C19: in every interleaving, whatever the order in which the workers took
\* the lock, the ledger is the union of the results the workers that have
\* merged obtained from their jobs: no two of them hold the same row, and
\* the ledger has exactly their rows with their entries.
C19_MergeOrder ==
  /\ \A b, c \in Merged :
       b # c => DOMAIN batch_results[b] \cap DOMAIN batch_results[c] = {}
  /\ DOMAIN all_results = UNION {DOMAIN batch_results[b] : b \in Merged}
  /\ \A b \in Merged : \A k \in DOMAIN batch_results[b] :
       all_results[k] = batch_results[b][k]

\* C19 witness: the worker of the second batch merged first and the worker
\* of the first batch after it, each with an entry.
C19_Witness ==
  \E b, c \in Batches :
    /\ b < c
    /\ exit_line[c] = 318 /\ DOMAIN batch_results[c] # {}
    /\ pc[b] = "save" /\ DOMAIN batch_results[b] # {}

\* C20: in every step of a run every row of the ledger stays in the ledger
\* with the entry it has.
C20_Step ==
  /\ DOMAIN all_results \subseteq DOMAIN all_results'
  /\ \A k \in DOMAIN all_results : all_results'[k] = all_results[k]

C20_Monotone == [][C20_Step]_vars

\* C20 witness: a second merge has added a row to a ledger that held a row
\* with a classification.
C20_Witness ==
  /\ Cardinality({b \in Batches : exit_line[b] = 318}) = 2
  /\ Cardinality(DOMAIN all_results) = 2
  /\ \E k \in DOMAIN all_results : all_results[k].best_aim # ""

\* C21: the workers that have started process_batch and not returned are
\* never more than MAX_WORKERS, and a batch starts only in a step that
\* leaves a thread of the pool for it.
C21_Inv == Cardinality(Running) <= MAX_WORKERS

C21_Step ==
  \A b \in Batches :
    (pc[b] = "pending" /\ pc'[b] # "pending") =>
      /\ Cardinality(Running) < MAX_WORKERS
      /\ b < futures
      /\ \A c \in Batches \ {b} : pc'[c] = pc[c]

C21_ConcurrencyLimit == []C21_Inv /\ [][C21_Step]_vars

\* C21 witness: with one thread, the second batch is handed over and waits
\* while the first has a job at the service.
C21_Witness ==
  /\ MAX_WORKERS = 1
  /\ futures = 2
  /\ pc[0] = "monitor" /\ pc[1] = "pending"

\* C22: a status query that raises while the counter is below max_retries
\* raises the counter by one and leaves the worker in the monitor loop with
\* the same job, range and batch file; one that raises with the counter at
\* max_retries ends the worker at line 376.  Neither creates a job nor
\* touches the ledger, and the worker that gave up has no row in it.
C22_Step ==
  \A b \in Batches :
    PollError(b) =>
      /\ jobs'[b] = jobs[b]
      /\ all_results' = all_results
      /\ start_idx'[b] = start_idx[b] /\ end_idx'[b] = end_idx[b]
      /\ retry_count[b] < max_retries =>
           /\ retry_count'[b] = retry_count[b] + 1
           /\ pc'[b] = "monitor"
           /\ batch_file'[b] = batch_file[b]
      /\ retry_count[b] = max_retries =>
           /\ pc'[b] = "returned" /\ exit_line'[b] = 376
           /\ \A i \in Rows : InBatch(b, i) => i \notin DOMAIN all_results'

C22_MonitoringErrors == [][C22_Step]_vars

\* C22 witness: after two failed jobs and one polling error the counter is
\* at max_retries, and the next polling error has ended the worker.
C22_Witness ==
  \E b \in Batches :
    /\ exit_line[b] = 376
    /\ Len(jobs[b]) = 3
    /\ events[b] = {"failed", "poll_error"}

\* A line of an output file that carries a score mapping under the
\* identifier of its request.
IsScoreLine(line, k) ==
  /\ line.json_ok /\ line.has_choices
  /\ line.custom_id = CustomId(k - 1)
  /\ line.content.kind = "mapping"

\* C23 as stated: the entries parsed from an output file are exactly those of
\* its lines that carry a score mapping: every such line, before or after a
\* malformed one, has its entry, and no other line has one.
C23_ParseTolerant ==
  probe.stage = "parsed" =>
    /\ DOMAIN probe.results =
         {k - 1 : k \in {j \in 1..Len(probe.lines) : IsScoreLine(probe.lines[j], j)}}
    /\ \A k \in 1..Len(probe.lines) :
         IsScoreLine(probe.lines[k], k) =>
           probe.results[k - 1].scores = probe.lines[k].content

\* C24 as stated: the first resubmission of a worker is made for the range
\* it had, every later one for the first half, rounded down, of the range it
\* had, and the lower bound of a worker's range never changes.
C24_Step ==
  \A b \in Batches :
    /\ b < futures => start_idx'[b] = start_idx[b]
    /\ (Len(jobs[b]) >= 1 /\ Len(jobs'[b]) = Len(jobs[b]) + 1) =>
         end_idx'[b] =
           IF Len(jobs[b]) = 1 THEN end_idx[b]
           ELSE start_idx[b] + (end_idx[b] - start_idx[b]) \div 2

C24_HalvingRule == [][C24_Step]_vars

\* The statuses process_batch has a branch for (lines 305, 319, 362).
Recognised == {"completed", "failed", "validating", "in_progress", "finalizing"}

\* C25: a worker whose poll returned a status outside the recognised ones has
\* returned at line 367 in that step; the step raises no counter, creates no
\* job and leaves the ledger alone, the worker polls no more, and no row of
\* its batch is in the ledger.
C25_Inv ==
  \A b \in Batches :
    status[b] \notin Recognised \cup {"none"} =>
      /\ pc[b] = "returned" /\ exit_line[b] = 367
      /\ \A i \in Rows : InBatch(b, i) => i \notin DOMAIN all_results

C25_Step ==
  \A b \in Batches :
    /\ (pc[b] = "monitor" /\ status'[b] \notin Recognised \cup {"none"}) =>
         /\ jobs'[b] = jobs[b]
         /\ all_results' = all_results
         /\ retry_count'[b] <= retry_count[b]
         /\ events'[b] = events[b]
    /\ status[b] \notin Recognised \cup {"none"} =>
         /\ status'[b] = status[b]
         /\ jobs'[b] = jobs[b]
         /\ pc'[b] = pc[b]

C25_UnexpectedStatus == []C25_Inv /\ [][C25_Step]_vars

\* C25 witness: a worker with retries left (one failed job, counter at 1) met
\* the status `expired` on its second job and returned.
C25_Witness ==
  \E b \in Batches :
    /\ status[b] = "expired" /\ exit_line[b] = 367
    /\ Len(jobs[b]) = 2 /\ events[b] = {"failed"}

\* C26: a `failed` status met with the counter at max_retries ends the worker
\* at line 361 without a job or a merge; from then on the worker creates no
\* job, no row of the range main gave it is in the ledger, and no other
\* worker has a request for such a row.
C26_Inv ==
  \A b \in Batches :
    exit_line[b] = 361 =>
      /\ pc[b] = "returned"
      /\ \A i \in Rows :
           InBatch(b, i) =>
             /\ i \notin DOMAIN all_results
             /\ \A c \in Batches \ {b} : \A j \in 1..Len(jobs[c]) :
                  CustomId(i) \notin Ids(jobs[c][j])

C26_Step ==
  \A b \in Batches :
    /\ (PollFailed(b) /\ retry_count[b] = max_retries) =>
         /\ pc'[b] = "returned" /\ exit_line'[b] = 361
         /\ jobs'[b] = jobs[b]
         /\ all_results' = all_results
    /\ exit_line[b] = 361 => (jobs'[b] = jobs[b] /\ pc'[b] = pc[b])

C26_Abandoned == []C26_Inv /\ [][C26_Step]_vars

\* C26 witness: a worker has given up at line 361 and the run has ended with
\* the entry of another batch in the ledger and in the final output.
C26_Witness ==
  \E b, c \in Batches :
    /\ exit_line[b] = 361
    /\ exit_line[c] = 318 /\ DOMAIN all_results # {}
    /\ main_pc = "done" /\ output_file.exists

\* Row i was in the range main gave to batch b and the worker has dropped it
\* by halving.
Dropped(b, i, e) == b < futures /\ InBatch(b, i) /\ i >= e[b]

\* C27: a row a worker has dropped by halving has no entry in the ledger,
\* also once the job for the kept half is merged; no manifest submitted in
\* or after the step that drops it, by any worker, holds a request for it;
\* and the upper bound of a worker's range never grows again.
C27_Inv ==
  \A b \in Batches : \A i \in Rows :
    Dropped(b, i, end_idx) => i \notin DOMAIN all_results

C27_Step ==
  \A b \in Batches :
    /\ b < futures => end_idx'[b] <= end_idx[b]
    /\ \A i \in Rows :
         Dropped(b, i, end_idx') =>
           \A c \in Batches :
             Len(jobs'[c]) > Len(jobs[c]) => CustomId(i) \notin Ids(Last(jobs'[c]))

C27_DiscardedHalves == []C27_Inv /\ [][C27_Step]_vars

\* C27 witness: a worker halved its range, the job for the kept half
\* completed and was merged, and the dropped row, which has text, is not in
\* the ledger.
C27_Witness ==
  \E b \in Batches : \E i, k \in Rows :
    /\ exit_line[b] = 318
    /\ Dropped(b, i, end_idx) /\ ~BlankRow(i)
    /\ InBatch(b, k) /\ k < end_idx[b] /\ k \in DOMAIN all_results

\* C28 as stated: when every job comes to an end, every worker returns,
\* having created at most 1 + max_retries jobs, and main writes the final
\* output.
C28_Terminates ==
  <>( /\ \A b \in Batches : pc[b] = "returned" /\ Len(jobs[b]) <= 1 + max_retries
      /\ main_pc # "submit"
      /\ output_file.exists )

\* The statuses with which a job has come to its end at the service.
Terminal == {"completed", "failed", "expired"}

\* The last job of batch b may still be running at the service: its worker
\* is monitoring it, or has returned on a status that is not terminal, or
\* has given up polling it (line 376) without having seen it end.
OpenJob(b) ==
  /\ jobs[b] # << >>
  /\ \/ pc[b] = "monitor"
     \/ pc[b] = "returned" /\ exit_line[b] = 367 /\ status[b] \notin Terminal
     \/ pc[b] = "returned" /\ exit_line[b] = 376

\* C29 as stated: the jobs that may still be running at the service are
\* never more than MAX_WORKERS, and a worker leaves the monitor loop only in
\* a step in which its job is seen in a terminal status.
C29_Inv == Cardinality({b \in Batches : OpenJob(b)}) <= MAX_WORKERS

C29_Step ==
  \A b \in Batches :
    (pc[b] = "monitor" /\ pc'[b] # "monitor") =>
      (status'[b] \in Terminal /\ exit_line'[b] # 376)

C29_NoOrphans == []C29_Inv /\ [][C29_Step]_vars

\* C30 as stated: every entry parsed from an output file, which is what the
\* worker merges into the ledger, has a score mapping that is not empty and a
\* selected category that is one of BYU_AIMS.
C30_EntryWellFormed ==
  probe.stage = "parsed" =>
    \A k \in DOMAIN probe.results :
      /\ probe.results[k].scores.kind = "mapping"
      /\ Len(probe.results[k].scores.pairs) > 0
      /\ probe.results[k].best_aim \in AimSet

====
